---- MODULE Spec2Model ----
(***************************************************************************)
(* A model of hippogriffe/_extension.py: the public-API resolver           *)
(* (_PublicApi), the base-class collector (_collect_bases), the memoised   *)
(* git lookup (_get_repo_url) and the enrichment pass (on_package_loaded). *)
(*                                                                         *)
(* griffe's object graph is the input of the program.  It is modelled by   *)
(* what the code reads of it: an item's name, its path, whether it is an   *)
(* alias and what its final target is, its all_members in iteration order, *)
(* a class's declared bases, a function's signature, an object's source    *)
(* location.  Names, dotted paths and URLs are strings, modelled as        *)
(* sequences of characters, so that startswith, endswith, removeprefix and *)
(* removesuffix are computed.                                              *)
(***************************************************************************)
EXTENDS Naturals, Sequences, FiniteSets, TLC

VARIABLES
  members,               \* item -> sequence of items: item.all_members.values()
  bases,                 \* class -> sequence of base paths: cls.bases
  top_level_public_api,  \* HippogriffeExtension.top_level_public_api: set of paths
  pc,                    \* position of the program
  agenda,                \* _PublicApi.__init__: list of <<item, force_public>>
  seen,                  \* _PublicApi.__init__: set of items
  data,                  \* _PublicApi._data: path -> list of paths
  objects,               \* _PublicApi._objects
  toplevel_objects,      \* _PublicApi._toplevel_objects
  popped,                \* history: the <<item, force_public>> pairs popped so far
  result,                \* what the last call of __getitem__ returned or raised
  config,                \* PluginConfig and repo_url, once on_package_loaded reads them
  todo,                  \* objects the current for loop has still to visit
  extra,                 \* object -> what the pass attached to it (obj.extra, parameters)
  stack,                 \* the frames of _collect_bases, innermost last
  cache,                 \* ft.cache of _get_repo_url: argument -> returned value
  git_runs,              \* argument -> how often its calls ran the git subprocesses
  calls,                 \* number of calls of _get_repo_url so far
  error                  \* the exception that left the program, or NoError

graphVars == <<members, bases, top_level_public_api>>

apiVars == <<agenda, seen, data, objects, toplevel_objects, popped>>

passVars == <<config, todo, extra, stack>>

repoVars == <<cache, git_runs, calls>>

vars == <<graphVars, apiVars, passVars, repoVars, pc, result, error>>

(***************************************************************************)
(* Bounds of the model.                                                    *)
(***************************************************************************)
\* member edges of the object graph
MaxEdges == 3

\* the traversal's agenda never holds this many entries (AgendaWithinBound)
MaxAgenda == 8

\* declared bases over all classes of the class graph
MaxBases == 2

\* frames of _collect_bases before the interpreter raises RecursionError
MaxDepth == 5

\* calls of _get_repo_url in one process
MaxCalls == 4

(***************************************************************************)
(* Strings.                                                                *)
(***************************************************************************)
Range(s) == {s[i] : i \in 1..Len(s)}

StartsWith(s, p) == Len(p) <= Len(s) /\ SubSeq(s, 1, Len(p)) = p

EndsWith(s, p) == Len(p) <= Len(s) /\ SubSeq(s, Len(s) - Len(p) + 1, Len(s)) = p

RemovePrefix(s, p) == IF StartsWith(s, p) THEN SubSeq(s, Len(p) + 1, Len(s)) ELSE s

RemoveSuffix(s, p) == IF EndsWith(s, p) THEN SubSeq(s, 1, Len(s) - Len(p)) ELSE s

RECURSIVE Filter(_, _)
Filter(s, keep) ==
  IF s = <<>> THEN <<>>
  ELSE IF Head(s) \in keep THEN <<Head(s)>> \o Filter(Tail(s), keep)
       ELSE Filter(Tail(s), keep)

Count(s, x) == Cardinality({i \in 1..Len(s) : s[i] = x})

Builtins == <<"b", "u", "i", "l", "t", "i", "n", "s">>

Https == <<"h", "t", "t", "p", "s", ":", "/", "/">>

GithubCom == <<"g", "i", "t", "h", "u", "b", ".", "c", "o", "m">>

GitlabCom == <<"g", "i", "t", "l", "a", "b", ".", "c", "o", "m">>

\* None, where the program holds a string or None
None == <<"None">>

NoError == [kind |-> "none"]

(***************************************************************************)
(* The object graph's items.  An item is an Object (module, class,         *)
(* function) or an Alias; the final target of an alias is an Object, or    *)
(* its resolution fails.  "E" is a class of another package, "ex".         *)
(***************************************************************************)
Unresolved == "AliasResolutionError"

Pkg == "pkg"

Items == {"pkg", "A", "B", "P", "D", "F", "R", "S", "U", "E"}

DunderInit == <<"_", "_", "i", "n", "i", "t", "_", "_">>

\* item.name
ItemName ==
  [i \in Items |->
     CASE i = "pkg" -> <<"p">>
       [] i = "A" -> <<"A">>
       [] i = "B" -> <<"B">>
       [] i = "P" -> <<"_", "P">>
       [] i = "D" -> DunderInit
       [] i = "F" -> <<"F">>
       [] i = "R" -> <<"R">>
       [] i = "S" -> <<"B">>
       [] i = "U" -> <<"U">>
       [] i = "E" -> <<"T">>]

\* item.path: the dotted path; distinct items have distinct paths
ItemPath ==
  [i \in Items |->
     CASE i = "pkg" -> <<"p">>
       [] i = "A" -> <<"p", ".", "A">>
       [] i = "B" -> <<"p", ".", "m", ".", "B">>
       [] i = "P" -> <<"p", ".", "m", ".", "_", "P">>
       [] i = "D" -> <<"p", ".", "A", ".">> \o DunderInit
       [] i = "F" -> <<"p", ".", "F">>
       [] i = "R" -> <<"p", ".", "R">>
       [] i = "S" -> <<"p", ".", "B">>
       [] i = "U" -> <<"p", ".", "U">>
       [] i = "E" -> <<"e", "x", ".", "T">>]

\* isinstance(item, griffe.Alias)
IsAlias(i) == i \in {"R", "S", "U"}

\* item.final_target; an Object is its own final item
FinalTarget(i) ==
  CASE i = "R" -> "A"
    [] i = "S" -> "B"
    [] i = "U" -> Unresolved
    [] OTHER -> i

\* obj.is_class, obj.is_function
IsClass(i) == i \in {"A", "B", "P", "E"}

IsFunction(i) == i \in {"D", "F"}

\* obj.filepath, obj.lineno and obj.endlineno; a line number that is None is
\* written 0 and a filepath that is not a Path (a list of paths) is written
\* <<>>.  The files lie under the directory git reports as the toplevel.
Location(i) ==
  CASE i \in {"A", "D"} -> [filepath |-> <<"/", "r", "/", "a">>, lineno |-> 1, endlineno |-> 2]
    [] i = "F" -> [filepath |-> <<"/", "r", "/", "f">>, lineno |-> 3, endlineno |-> 4]
    [] OTHER -> [filepath |-> <<"/", "r", "/", "m">>, lineno |-> 0, endlineno |-> 0]

\* types a signature can hold, by f"{obj.__module__}.{obj.__qualname__}"
BuiltinsInt == Builtins \o <<".", "i", "n", "t">>

Unknown == <<"z", ".", "T">>

\* what an annotation or a default is made of: a type object, a Literal[...],
\* a string (with what eval gives for it, or a failure), any other value, or
\* inspect.Signature.empty
Type(key) == [is |-> "type", key |-> key]

Literal == [is |-> "Literal"]

Str(evals) == [is |-> "str", evals |-> evals]

\* eval raises: the string stays a string
Fails == [is |-> "fails"]

Value == [is |-> "value"]

Empty == [is |-> "empty"]

NoneType == [is |-> "NoneType"]

\* inspect.signature(node.obj) of the package's functions
RuntimeSignature(f) ==
  IF f = "D"
    THEN [parameters |-> << [annotation |-> Type(ItemPath["B"]), default |-> Empty] >>,
          return_annotation |-> NoneType]
    ELSE [parameters |->
            << [annotation |-> Type(BuiltinsInt), default |-> Type(ItemPath["E"])],
               [annotation |-> Literal, default |-> Value],
               [annotation |-> Str(Type(ItemPath["A"])), default |-> Str(Type(Unknown))] >>,
          return_annotation |-> Str(Fails)]

\* the declared bases of the package's classes: A(_P, int, <the module>), _P(B)
\* where B is named through its alias
PackageBases ==
  [c \in Items |->
     CASE c = "A" -> <<ItemPath["P"], BuiltinsInt, ItemPath["pkg"]>>
       [] c = "P" -> <<ItemPath["S"]>>
       [] OTHER -> <<>>]

(***************************************************************************)
(* The configuration.  A field is an input: it is drawn where the program   *)
(* first reads it, and config.read names the fields drawn so far.          *)
(***************************************************************************)
InitialConfig ==
  [builtin_modules |-> << Builtins >>,
   stdlib_modules |-> << <<"t", "y">> >>,
   extra_public_modules |-> <<>>,
   show_bases |-> FALSE,
   show_source_links |-> "none",
   repo_url |-> <<>>,
   read |-> {}]

Read(field, value) == [config EXCEPT ![field] = value, !.read = @ \cup {field}]

ExtraPublicChoices == { << <<"e", "x">> >>, << <<"e", "x">>, Builtins >> }

(***************************************************************************)
(* _PublicApi.__init__                                                     *)
(***************************************************************************)
\* item.name.startswith("_") and not (startswith("__") and endswith("__"))
IsPrivate(name) ==
  /\ StartsWith(name, <<"_">>)
  /\ ~(StartsWith(name, <<"_", "_">>) /\ EndsWith(name, <<"_", "_">>))

\* the comparison if no alias were taken to rename its target
NeverRenamed(item) == FALSE

\* item.name != final_item.name
IsRenamed(item) == ItemName[item] # ItemName[FinalTarget(item)]

\* the comprehension without its "if x not in seen"
ChildrenUnfiltered(item, seenNow, force) ==
  [k \in 1..Len(members[item]) |-> <<members[item][k], force>>]

\* (x, force) for x in item.all_members.values() if x not in seen
Children(item, seenNow, force) ==
  LET keep == Filter(members[item], Items \ seenNow)
  IN [k \in 1..Len(keep) |-> <<keep[k], force>>]

\* paths = self._data[final.path] (created empty on KeyError); paths.append(item.path)
Record(d, key, path) ==
  IF key \in DOMAIN d
    THEN [d EXCEPT ![key] = Append(@, path)]
    ELSE [k \in DOMAIN d \cup {key} |-> IF k = key THEN <<path>> ELSE d[k]]

Top == agenda[Len(agenda)]

Rest == SubSeq(agenda, 1, Len(agenda) - 1)

\* item, force_public = agenda.pop(); seen.add(item)
Pop ==
  /\ pc = "init"
  /\ agenda # <<>>
  /\ Len(agenda) < MaxAgenda
  /\ seen' = seen \cup {Top[1]}
  /\ popped' = popped \cup {Top}

\* continue
Skip ==
  /\ agenda' = Rest
  /\ UNCHANGED <<graphVars, passVars, repoVars, pc, result, error>>
  /\ UNCHANGED <<data, objects, toplevel_objects>>

VisitPrivate ==
  /\ Pop
  /\ IsPrivate(ItemName[Top[1]])
  /\ Skip

VisitUnresolved ==
  /\ Pop
  /\ ~IsPrivate(ItemName[Top[1]])
  /\ IsAlias(Top[1])
  /\ FinalTarget(Top[1]) = Unresolved
  /\ Skip

VisitRenamed ==
  /\ Pop
  /\ ~IsPrivate(ItemName[Top[1]])
  /\ IsAlias(Top[1])
  /\ FinalTarget(Top[1]) # Unresolved
  /\ IsRenamed(Top[1])
  /\ Skip

\* the item passes the three checks that end in continue
Proceeds(item) ==
  /\ ~IsPrivate(ItemName[item])
  /\ IsAlias(item) => (FinalTarget(item) # Unresolved /\ ~IsRenamed(item))

VisitPublic ==
  /\ Pop
  /\ Proceeds(Top[1])
  /\ LET item == Top[1]
         final_item == FinalTarget(item)
         toplevel_public == ItemPath[item] \in top_level_public_api
     IN /\ Top[2] \/ toplevel_public
        /\ agenda' = Rest \o Children(item, seen', TRUE)
        /\ data' = Record(data, ItemPath[final_item], ItemPath[item])
        /\ objects' = objects \cup {final_item}
        /\ toplevel_objects' =
             IF toplevel_public THEN toplevel_objects \cup {final_item}
             ELSE toplevel_objects
  /\ UNCHANGED <<graphVars, passVars, repoVars, pc, result, error>>

VisitNonPublic ==
  /\ Pop
  /\ Proceeds(Top[1])
  /\ ~(Top[2] \/ ItemPath[Top[1]] \in top_level_public_api)
  /\ agenda' = Rest \o Children(Top[1], seen', FALSE)
  /\ UNCHANGED <<graphVars, passVars, repoVars, pc, result, error>>
  /\ UNCHANGED <<data, objects, toplevel_objects>>

Visit == VisitPrivate \/ VisitUnresolved \/ VisitRenamed \/ VisitPublic \/ VisitNonPublic

\* the while loop ends and the constructor returns; the module lists it stored
\* are read from here on
InitReturn ==
  /\ pc = "init"
  /\ agenda = <<>>
  /\ pc' = "built"
  /\ \E x \in ExtraPublicChoices :
       /\ "extra_public_modules" \in config.read => x = config.extra_public_modules
       /\ config' = Read("extra_public_modules", x)
  /\ UNCHANGED <<graphVars, apiVars, repoVars, todo, extra, stack, result, error>>

(***************************************************************************)
(* _PublicApi.__getitem__                                                  *)
(***************************************************************************)
\* self._public_modules = stdlib_modules + extra_public_modules
PublicModules(cfg) == cfg.stdlib_modules \o cfg.extra_public_modules

\* for m in mods: if key.startswith(m + "."): the first such m, or <<>>
RECURSIVE FirstPrefix(_, _)
FirstPrefix(mods, key) ==
  IF mods = <<>> THEN <<>>
  ELSE IF StartsWith(key, Head(mods) \o <<".">>) THEN Head(mods)
       ELSE FirstPrefix(Tail(mods), key)

Return(path, autoref) == [kind |-> "return", path |-> path, autoref |-> autoref]

NotInPublicApi(key) == [kind |-> "_NotInPublicApiException", key |-> key]

Ambiguous(key, paths) == [kind |-> "ValueError", key |-> key, paths |-> paths]

\* the lookup if it were to return the first recorded path whatever their number
GetItemFirst(d, cfg, key) ==
  IF key \in DOMAIN d THEN Return(d[key][1], TRUE) ELSE NotInPublicApi(key)

GetItem(d, cfg, key) ==
  IF key \notin DOMAIN d
    THEN IF FirstPrefix(cfg.builtin_modules, key) # <<>>
           THEN Return(RemovePrefix(key, FirstPrefix(cfg.builtin_modules, key) \o <<".">>),
                       FALSE)
         ELSE IF FirstPrefix(PublicModules(cfg), key) # <<>>
           THEN Return(key, FALSE)
         ELSE NotInPublicApi(key)
  ELSE IF Len(d[key]) = 1
    THEN Return(d[key][1], TRUE)
  ELSE Ambiguous(key, d[key])

\* the keys looked up: paths of the package, and types of other modules
LookupKeys ==
  { ItemPath["A"], ItemPath["B"], BuiltinsInt, <<"b", "u", ".", "n">>,
    ItemPath["E"], Unknown }

\* public_api[key], on the finished index
Lookup(key) ==
  /\ pc = "built"
  /\ result' = GetItem(data, config, key) @@ [key |-> key]
  /\ pc' = "looked"
  /\ UNCHANGED <<graphVars, apiVars, passVars, repoVars, error>>

(***************************************************************************)
(* _resolved_bases                                                         *)
(***************************************************************************)
\* \w matches every character of the model's strings but these
NonWord == {".", "/", ":", "-"}

\* the longest prefix of s made of \w characters
RECURSIVE WordPrefix(_)
WordPrefix(s) ==
  IF s = <<>> \/ Head(s) \in NonWord THEN <<>>
  ELSE <<Head(s)>> \o WordPrefix(Tail(s))

\* _builtin_re.match(base_path): group(1), or <<>> when there is no match
BuiltinMatch(base_path) ==
  IF StartsWith(base_path, Builtins \o <<".">>)
    THEN WordPrefix(RemovePrefix(base_path, Builtins \o <<".">>))
    ELSE <<>>

\* hasattr(builtins, name)
BuiltinNames == { <<"i", "n", "t">>, <<"o", "b", "j", "e", "c", "t">> }

\* cls.modules_collection[base_path]: the item at that path, or KeyError
ModulesCollection(base_path) ==
  IF \E i \in Items : ItemPath[i] = base_path
    THEN CHOOSE i \in Items : ItemPath[i] = base_path
    ELSE "KeyError"

StrBase(name) == [is |-> "str", name |-> name]

ObjectBase(obj) == [is |-> "object", obj |-> obj]

\* one turn of the loop: the resolved base as a one-element list, or the empty
\* list when an exception was suppressed
ResolveBase(base_path) ==
  IF BuiltinMatch(base_path) # <<>>
    THEN IF BuiltinMatch(base_path) \in BuiltinNames
           THEN << StrBase(BuiltinMatch(base_path)) >>
           ELSE <<>>
  ELSE IF ModulesCollection(base_path) = "KeyError"
    THEN <<>>
  ELSE IF FinalTarget(ModulesCollection(base_path)) = Unresolved
    THEN <<>>
  ELSE << ObjectBase(FinalTarget(ModulesCollection(base_path))) >>

RECURSIVE ResolveAll(_)
ResolveAll(paths) ==
  IF paths = <<>> THEN <<>>
  ELSE ResolveBase(Head(paths)) \o ResolveAll(Tail(paths))

ResolvedBases(cls) == ResolveAll(bases[cls])

(***************************************************************************)
(* _collect_bases.  A dict is the sequence of its <<key, value>> items in  *)
(* insertion order.  A frame holds the class, the resolved bases the loop  *)
(* has still to visit, and the dict built so far.                          *)
(***************************************************************************)
Keys(dict) == {dict[i][1] : i \in 1..Len(dict)}

\* dict[key] = value
DictSet(dict, key, value) ==
  IF key \in Keys(dict)
    THEN [i \in 1..Len(dict) |-> IF dict[i][1] = key THEN <<key, value>> ELSE dict[i]]
    ELSE Append(dict, <<key, value>>)

\* dict.update(other)
RECURSIVE DictUpdate(_, _)
DictUpdate(dict, other) ==
  IF other = <<>> THEN dict
  ELSE DictUpdate(DictSet(dict, Head(other)[1], Head(other)[2]), Tail(other))

Frame(cls) == [cls |-> cls, todo |-> ResolvedBases(cls), bases |-> <<>>]

Cur == stack[Len(stack)]

\* the innermost frame with its loop moved on by one base
Advanced(dict) == [Cur EXCEPT !.todo = Tail(@), !.bases = dict]

Replaced(frame) == [stack EXCEPT ![Len(stack)] = frame]

\* set(extra_public_modules) | set(stdlib_modules)
PublicModuleSet(cfg) == Range(cfg.extra_public_modules) \cup Range(cfg.stdlib_modules)

InLoop ==
  /\ pc = "bases"
  /\ Cur.todo # <<>>

BasesKeep ==
  UNCHANGED <<graphVars, apiVars, repoVars, config, todo, extra, pc, result, error>>

\* isinstance(base, str): a builtin
BasesBuiltin ==
  /\ InLoop
  /\ Head(Cur.todo).is = "str"
  /\ stack' = Replaced(Advanced(
       IF Builtins \in PublicModuleSet(config)
         THEN DictSet(Cur.bases, Head(Cur.todo).name, FALSE)
         ELSE Cur.bases))
  /\ BasesKeep

\* neither a str nor a griffe.Class
BasesOther ==
  /\ InLoop
  /\ Head(Cur.todo).is = "object"
  /\ ~IsClass(Head(Cur.todo).obj)
  /\ stack' = Replaced(Advanced(Cur.bases))
  /\ BasesKeep

ClassBase ==
  /\ InLoop
  /\ Head(Cur.todo).is = "object"
  /\ IsClass(Head(Cur.todo).obj)

\* the lookup if every class base were found under its own path
BaseLookupOwnPath == Return(ItemPath[Head(Cur.todo).obj], TRUE)

\* public_api[base.path]
BaseLookup == GetItem(data, config, ItemPath[Head(Cur.todo).obj])

\* else: bases[base] = autoref
BasesFound ==
  /\ ClassBase
  /\ BaseLookup.kind = "return"
  /\ stack' = Replaced(Advanced(DictSet(Cur.bases, BaseLookup.path, BaseLookup.autoref)))
  /\ BasesKeep

\* except _NotInPublicApiException: the recursive call
BasesRecurse ==
  /\ ClassBase
  /\ BaseLookup.kind = "_NotInPublicApiException"
  /\ Len(stack) < MaxDepth
  /\ stack' = Append(Replaced(Advanced(Cur.bases)), Frame(Head(Cur.todo).obj))
  /\ BasesKeep

\* the recursive call when the interpreter's stack is used up
BasesRecursionError ==
  /\ ClassBase
  /\ BaseLookup.kind = "_NotInPublicApiException"
  /\ Len(stack) >= MaxDepth
  /\ pc' = "raised"
  /\ error' = [kind |-> "RecursionError"]
  /\ UNCHANGED <<graphVars, apiVars, passVars, repoVars, result>>

\* the ValueError of an ambiguous path is not caught
BasesAmbiguous ==
  /\ ClassBase
  /\ BaseLookup.kind = "ValueError"
  /\ pc' = "raised"
  /\ error' = BaseLookup
  /\ UNCHANGED <<graphVars, apiVars, passVars, repoVars, result>>

\* return bases, into bases.update(...) of the caller
BasesReturnInner ==
  /\ pc = "bases"
  /\ Cur.todo = <<>>
  /\ Len(stack) > 1
  /\ LET caller == stack[Len(stack) - 1]
     IN stack' = Append(SubSeq(stack, 1, Len(stack) - 2),
                        [caller EXCEPT !.bases = DictUpdate(@, Cur.bases)])
  /\ BasesKeep

\* return bases, into on_package_loaded:
\* obj.extra["hippogriffe"]["public_bases"] = list(....items())
BasesReturnOuter ==
  /\ pc = "bases"
  /\ Cur.todo = <<>>
  /\ Len(stack) = 1
  /\ stack' = <<>>
  /\ extra' = [extra EXCEPT ![Cur.cls] = @ @@ [public_bases |-> Cur.bases]]
  /\ pc' = "enrich"
  /\ UNCHANGED <<graphVars, apiVars, repoVars, config, todo, result, error>>

CollectBases ==
  \/ BasesBuiltin
  \/ BasesOther
  \/ BasesFound
  \/ BasesRecurse
  \/ BasesAmbiguous
  \/ BasesReturnInner
  \/ BasesReturnOuter

(***************************************************************************)
(* on_function_instance, use_public_name, _pretty_annotation,              *)
(* _pretty_param, _pretty_fn.  A formatted annotation is the TextDoc of a  *)
(* public path, the document of a Literal, or wadler_lindig's own          *)
(* rendering of the value ("plain"); formatting raises what the hook       *)
(* raises.                                                                 *)
(***************************************************************************)
\* func.extra["hippogriffe"]["signature"]: __init__ loses its return annotation
OnFunctionInstance(f) ==
  IF ItemName[f] = DunderInit
    THEN [RuntimeSignature(f) EXCEPT !.return_annotation = Empty]
    ELSE RuntimeSignature(f)

TextDoc(path) == [kind |-> "TextDoc", path |-> path]

LiteralDoc == [kind |-> "Literal"]

Plain == [kind |-> "plain"]

Nothing == [kind |-> "None"]

IsRaise(r) == r.kind \in {"_NotInPublicApiException", "ValueError"}

\* the hook if it were to return None when the lookup raises
UsePublicNameSuppressed(d, cfg, context, obj) ==
  IF obj.is = "Literal" THEN LiteralDoc
  ELSE LET evaluated == IF context # None /\ obj.is = "str" /\ obj.evals # Fails
                          THEN obj.evals ELSE obj
       IN IF evaluated.is = "type"
            THEN LET found == GetItem(d, cfg, evaluated.key)
                 IN IF found.kind = "return" THEN TextDoc(found.path) ELSE Plain
            ELSE Plain

\* the hook's answer for one value: a document, Plain when the hook returns None
\* (no substitution), or the exception of the lookup
UsePublicName(d, cfg, context, obj) ==
  IF obj.is = "Literal" THEN LiteralDoc
  ELSE LET evaluated == IF context # None /\ obj.is = "str" /\ obj.evals # Fails
                          THEN obj.evals ELSE obj
       IN IF evaluated.is = "type"
            THEN LET found == GetItem(d, cfg, evaluated.key)
                 IN IF found.kind = "return" THEN TextDoc(found.path) ELSE found
            ELSE Plain

\* _pretty_annotation
PrettyAnnotation(d, cfg, annotation, context) ==
  IF annotation = Empty THEN Nothing ELSE UsePublicName(d, cfg, context, annotation)

\* _pretty_param: the annotation, then the default with no context
PrettyParam(d, cfg, param, context) ==
  LET annotation == PrettyAnnotation(d, cfg, param.annotation, context)
      default == IF param.default = Empty THEN Nothing
                 ELSE UsePublicName(d, cfg, None, param.default)
  IN IF IsRaise(annotation) THEN annotation
     ELSE IF IsRaise(default) THEN default
     ELSE [kind |-> "Parameter", annotation |-> annotation, default |-> default]

\* the list comprehension of _pretty_fn: the parameters, or the first exception
RECURSIVE PrettyParams(_, _, _, _)
PrettyParams(d, cfg, params, context) ==
  IF params = <<>> THEN [kind |-> "Parameters", list |-> <<>>]
  ELSE LET first == PrettyParam(d, cfg, Head(params), context)
           others == PrettyParams(d, cfg, Tail(params), context)
       IN IF IsRaise(first) THEN first
          ELSE IF IsRaise(others) THEN others
          ELSE [kind |-> "Parameters", list |-> <<first>> \o others.list]

\* sys.modules[obj.module.path].__dict__, or {}: never None
ModuleContext == <<"module.__dict__">>

(***************************************************************************)
(* on_package_loaded: the loop over the public objects.                    *)
(***************************************************************************)
Attach(obj, fields) == [extra EXCEPT ![obj] = fields @@ @]

\* for obj in public_api, after the constructor returned
StartEnrich ==
  /\ pc = "built"
  /\ pc' = "enrich"
  /\ todo' = objects
  /\ \E b \in BOOLEAN : config' = Read("show_bases", b)
  /\ UNCHANGED <<graphVars, apiVars, repoVars, extra, stack, result, error>>

FnTemplate == [template |-> "hippogriffe/fn.html.jinja"]

ClassTemplate == [template |-> "hippogriffe/class.html.jinja"]

\* obj.is_function: the template, then _pretty_fn
EnrichFunction(obj) ==
  /\ pc = "enrich"
  /\ obj \in todo
  /\ IsFunction(obj)
  /\ LET signature == OnFunctionInstance(obj)
         parameters == PrettyParams(data, config, signature.parameters, ModuleContext)
         returns == PrettyAnnotation(data, config, signature.return_annotation,
                                     ModuleContext)
     IN IF IsRaise(parameters)
          THEN /\ extra' = Attach(obj, FnTemplate)
               /\ error' = parameters
               /\ pc' = "raised"
               /\ todo' = todo
        ELSE IF IsRaise(returns)
          THEN /\ extra' = Attach(obj, [parameters |-> parameters.list] @@ FnTemplate)
               /\ error' = returns
               /\ pc' = "raised"
               /\ todo' = todo
        ELSE /\ extra' = Attach(obj, [parameters |-> parameters.list,
                                      returns |-> returns] @@ FnTemplate)
             /\ todo' = todo \ {obj}
             /\ UNCHANGED <<pc, error>>
  /\ UNCHANGED <<graphVars, apiVars, repoVars, config, stack, result>>

\* obj.is_class: the template, then _collect_bases when show_bases is set
EnrichClass(obj) ==
  /\ pc = "enrich"
  /\ obj \in todo
  /\ IsClass(obj)
  /\ extra' = Attach(obj, ClassTemplate)
  /\ todo' = todo \ {obj}
  /\ IF config.show_bases
       THEN stack' = <<Frame(obj)>> /\ pc' = "bases"
       ELSE UNCHANGED <<stack, pc>>
  /\ UNCHANGED <<graphVars, apiVars, repoVars, config, result, error>>

\* neither a function nor a class
EnrichOther(obj) ==
  /\ pc = "enrich"
  /\ obj \in todo
  /\ ~IsFunction(obj)
  /\ ~IsClass(obj)
  /\ todo' = todo \ {obj}
  /\ UNCHANGED <<graphVars, apiVars, repoVars, config, extra, stack, pc, result, error>>

(***************************************************************************)
(* _get_repo_url, under ft.cache: a call whose argument is in the cache    *)
(* returns the cached value and runs nothing; a value is cached when the   *)
(* call returns, and nothing is cached when it raises.                     *)
(***************************************************************************)
\* what git prints: rev-parse HEAD and rev-parse --show-toplevel
CommitHash == <<"c", "0">>

GitToplevel == <<"/", "r">>

RaiseValueError(why) == [kind |-> "ValueError", why |-> why]

\* the body of the function: what it returns or raises, and whether it ran git.
\* git is whether both commands succeed.
RepoUrlBody(repo_url, git) ==
  IF repo_url = None
    THEN [ran |-> FALSE, out |-> RaiseValueError("requires repo_url")]
  ELSE IF ~git
    THEN [ran |-> TRUE, out |-> RaiseValueError("requires a git repository")]
  ELSE LET raw_url == RemovePrefix(RemovePrefix(repo_url, Https), Https)
       IN IF StartsWith(raw_url, GithubCom) \/ StartsWith(raw_url, GitlabCom)
            THEN [ran |-> TRUE,
                  out |-> [kind |-> "return",
                           toplevel |-> GitToplevel,
                           repo_url |-> RemoveSuffix(repo_url, <<"/">>)
                                          \o <<"/", "blob", "/">> \o CommitHash]]
            ELSE [ran |-> TRUE, out |-> RaiseValueError("unsupported host")]

\* the call as it would be without ft.cache
GetRepoUrlUncached(memo, repo_url, git) == RepoUrlBody(repo_url, git)

\* the memoised call
GetRepoUrl(memo, repo_url, git) ==
  IF repo_url \in DOMAIN memo
    THEN [ran |-> FALSE, out |-> memo[repo_url]]
    ELSE RepoUrlBody(repo_url, git)

\* ft.cache stores the value of a call that returned
Memoised(memo, repo_url, out) ==
  IF out.kind = "return" /\ repo_url \notin DOMAIN memo
    THEN [k \in DOMAIN memo \cup {repo_url} |-> IF k = repo_url THEN out ELSE memo[k]]
    ELSE memo

Counted(runs, repo_url, ran) ==
  IF ~ran THEN runs
  ELSE IF repo_url \in DOMAIN runs
    THEN [runs EXCEPT ![repo_url] = @ + 1]
    ELSE [k \in DOMAIN runs \cup {repo_url} |-> IF k = repo_url THEN 1 ELSE runs[k]]

RepoUrlChoices ==
  { None,
    Https \o GithubCom \o <<"/", "r", "/">>,
    GitlabCom \o <<"/", "r">>,
    <<"h", "t", "t", "p", ":", "/", "/">> \o GithubCom \o <<"/", "r">> }

\* one call of _get_repo_url(repo_url) in a process where git answers or fails
CallGetRepoUrl(repo_url, git) ==
  /\ pc = "process"
  /\ calls < MaxCalls
  /\ LET call == GetRepoUrl(cache, repo_url, git)
     IN /\ cache' = Memoised(cache, repo_url, call.out)
        /\ git_runs' = Counted(git_runs, repo_url, call.ran)
        /\ result' = [arg |-> repo_url, ran |-> call.ran, out |-> call.out]
  /\ calls' = calls + 1
  /\ UNCHANGED <<graphVars, apiVars, passVars, pc, error>>

(***************************************************************************)
(* on_package_loaded: the source links.                                    *)
(***************************************************************************)
\* api_iterable if "toplevel" were to select every public object
ApiIterableEvery(mode) == IF mode = "none" THEN {} ELSE objects

\* api_iterable
ApiIterable(mode) ==
  CASE mode = "none" -> {}
    [] mode = "toplevel" -> toplevel_objects
    [] mode = "all" -> objects

\* the loop over the public objects is over
StartLinks ==
  /\ pc = "enrich"
  /\ todo = {}
  /\ \E mode \in {"none", "toplevel", "all"} :
       /\ config' = Read("show_source_links", mode)
       /\ todo' = ApiIterable(mode)
  /\ pc' = "links"
  /\ UNCHANGED <<graphVars, apiVars, repoVars, extra, stack, result, error>>

\* lineno and endlineno are not None and filepath is a Path
Located(obj) ==
  /\ Location(obj).lineno # 0
  /\ Location(obj).endlineno # 0
  /\ Location(obj).filepath # <<>>

LinkSkip(obj) ==
  /\ pc = "links"
  /\ obj \in todo
  /\ ~Located(obj)
  /\ todo' = todo \ {obj}
  /\ UNCHANGED <<graphVars, apiVars, repoVars, config, extra, stack, pc, result, error>>

\* self.repo_url as this call reads it
RepoUrlRead(u) == IF "repo_url" \in config.read THEN u = config.repo_url
                  ELSE u \in RepoUrlChoices

\* repo_url.format(path=obj.filepath.relative_to(toplevel), start=..., end=...)
Url(value, obj) ==
  [template |-> value.repo_url,
   path |-> RemovePrefix(Location(obj).filepath, value.toplevel \o <<"/">>),
   start |-> Location(obj).lineno,
   end |-> Location(obj).endlineno]

LinkObject(obj) ==
  /\ pc = "links"
  /\ obj \in todo
  /\ Located(obj)
  /\ \E u \in RepoUrlChoices, git \in BOOLEAN :
       /\ RepoUrlRead(u)
       /\ config' = Read("repo_url", u)
       /\ LET call == GetRepoUrl(cache, u, git)
          IN /\ cache' = Memoised(cache, u, call.out)
             /\ git_runs' = Counted(git_runs, u, call.ran)
             /\ IF call.out.kind = "return"
                  THEN /\ extra' = Attach(obj, [url |-> Url(call.out, obj)])
                       /\ todo' = todo \ {obj}
                       /\ UNCHANGED <<pc, error>>
                  ELSE /\ error' = call.out
                       /\ pc' = "raised"
                       /\ UNCHANGED <<extra, todo>>
  /\ calls' = calls + 1
  /\ UNCHANGED <<graphVars, apiVars, stack, result>>

\* on_package_loaded returns
Finish ==
  /\ pc = "links"
  /\ todo = {}
  /\ pc' = "done"
  /\ UNCHANGED <<graphVars, apiVars, passVars, repoVars, result, error>>

(***************************************************************************)
(* The host.  griffe's loader builds the object graph before it calls      *)
(* on_package_loaded: one member at a time, under an item already in the   *)
(* graph (a function has no members, and an alias that does not resolve    *)
(* has none to read).                                                      *)
(***************************************************************************)
InGraph(i) == i = Pkg \/ \E p \in Items : i \in Range(members[p])

RECURSIVE SumLen(_, _)
SumLen(f, S) ==
  IF S = {} THEN 0
  ELSE LET x == CHOOSE y \in S : TRUE IN Len(f[x]) + SumLen(f, S \ {x})

LoadMember(p, c) ==
  /\ pc = "load"
  /\ InGraph(p)
  /\ FinalTarget(p) # Unresolved
  /\ ~IsFunction(p)
  /\ c # Pkg
  /\ c \notin Range(members[p])
  /\ SumLen(members, Items) < MaxEdges
  /\ members' = [members EXCEPT ![p] = Append(@, c)]
  /\ UNCHANGED <<bases, top_level_public_api, apiVars, passVars, repoVars, pc,
                 result, error>>

\* class A, or a class some class of the class graph derives from
InClassGraph(c) == c = "A" \/ \E d \in Items : ObjectBase(c) \in Range(ResolvedBases(d))

\* a declared base is drawn when the pass is about to read the class graph
LoadBase(c, base_path) ==
  /\ pc = "built"
  /\ IsClass(c)
  /\ InClassGraph(c)
  /\ SumLen(bases, Items) < MaxBases
  /\ bases' = [bases EXCEPT ![c] = Append(@, base_path)]
  /\ UNCHANGED <<members, top_level_public_api, apiVars, passVars, repoVars, pc,
                 result, error>>

BasePathChoices ==
  { ItemPath["B"], ItemPath["P"], ItemPath["E"], ItemPath["S"], ItemPath["U"],
    ItemPath["pkg"], BuiltinsInt, Builtins \o <<".", "n", "o">> }

\* on_package_loaded: public_api = _PublicApi(pkg, ...); agenda = [(pkg, False)]
Construct ==
  /\ pc = "load"
  /\ pc' = "init"
  /\ agenda' = <<<<Pkg, FALSE>>>>
  /\ seen' = {}
  /\ data' = <<>>
  /\ objects' = {}
  /\ toplevel_objects' = {}
  /\ UNCHANGED <<graphVars, passVars, repoVars, popped, result, error>>

(***************************************************************************)
(* Specifications.                                                         *)
(***************************************************************************)
StartWith(cfg) ==
  /\ agenda = <<>>
  /\ seen = {}
  /\ data = <<>>
  /\ objects = {}
  /\ toplevel_objects = {}
  /\ popped = {}
  /\ result = [kind |-> "none"]
  /\ config = cfg
  /\ todo = {}
  /\ extra = [i \in Items |-> <<>>]
  /\ stack = <<>>
  /\ cache = <<>>
  /\ git_runs = <<>>
  /\ calls = 0
  /\ error = NoError

Start == StartWith(InitialConfig)

NoMembers == [i \in Items |-> <<>>]

\* _PublicApi over the graphs of eight items, and lookups in the index
ItemsApi == {"pkg", "A", "B", "P", "D", "R", "S", "U"}

TopChoices ==
  { {ItemPath["A"], ItemPath["R"], ItemPath["U"], ItemPath["P"]},
    {ItemPath["B"], ItemPath["S"]} }

InitApi ==
  /\ members = NoMembers
  /\ bases = PackageBases
  /\ top_level_public_api \in TopChoices
  /\ pc = "load"
  /\ Start

NextBuild ==
  \/ \E p \in ItemsApi, c \in ItemsApi : LoadMember(p, c)
  \/ Construct
  \/ Visit
  \/ InitReturn

NextApi ==
  \/ NextBuild
  \/ \E key \in LookupKeys : Lookup(key)

SpecApi == InitApi /\ [][NextApi]_vars

\* __init__ is a sequential loop: it runs until the agenda is empty
FairSpecApi == InitApi /\ [][NextBuild]_vars /\ WF_vars(Visit \/ InitReturn)

\* on_package_loaded over the graphs of a package of classes and functions
ItemsPkg == {"pkg", "A", "B", "S", "D", "F"}

TopChoicesPkg ==
  { {ItemPath["A"], ItemPath["F"], ItemPath["B"], ItemPath["S"]},
    {ItemPath["pkg"]} }

InitPkg ==
  /\ members = NoMembers
  /\ bases = PackageBases
  /\ top_level_public_api \in TopChoicesPkg
  /\ pc = "load"
  /\ StartWith([InitialConfig EXCEPT !.extra_public_modules = << <<"e", "x">>, Builtins >>,
                                     !.read = {"extra_public_modules"}])

NextPkg ==
  \/ \E p \in ItemsPkg, c \in ItemsPkg : LoadMember(p, c)
  \/ Construct
  \/ VisitPublic
  \/ VisitNonPublic
  \/ InitReturn
  \/ StartEnrich
  \/ \E obj \in Items : EnrichFunction(obj) \/ EnrichClass(obj) \/ EnrichOther(obj)
  \/ CollectBases
  \/ StartLinks
  \/ \E obj \in Items : LinkSkip(obj) \/ LinkObject(obj)
  \/ Finish

SpecPkg == InitPkg /\ [][NextPkg]_vars

\* the loop over the public classes of one package, over class graphs
PackageMembers == [NoMembers EXCEPT !["pkg"] = <<"A", "B", "S", "P", "R", "U">>]

TopChoicesBases ==
  { {ItemPath["A"]},
    {ItemPath["A"], ItemPath["B"]},
    {ItemPath["A"], ItemPath["B"], ItemPath["S"]} }

InitBases ==
  /\ members = PackageMembers
  /\ bases = [i \in Items |-> <<>>]
  /\ top_level_public_api \in TopChoicesBases
  /\ pc = "load"
  /\ Start

NextBases ==
  \/ Construct
  \/ Visit
  \/ InitReturn
  \/ \E c \in Items, b \in BasePathChoices : LoadBase(c, b)
  \/ StartEnrich
  \/ \E obj \in Items : EnrichClass(obj)
  \/ CollectBases
  \/ BasesRecursionError

SpecBases == InitBases /\ [][NextBases]_vars

\* calls of _get_repo_url in one process
InitRepo ==
  /\ members = NoMembers
  /\ bases = PackageBases
  /\ top_level_public_api = {}
  /\ pc = "process"
  /\ Start

NextRepo == \E u \in RepoUrlChoices, git \in BOOLEAN : CallGetRepoUrl(u, git)

SpecRepo == InitRepo /\ [][NextRepo]_vars


(***************************************************************************)
(* Properties of _PublicApi.                                               *)
(***************************************************************************)
\* the item's name is not underscore-private, and it is not an alias that
\* fails to resolve or that renames its target
Eligible(i) ==
  /\ ~(Head(ItemName[i]) = "_"
       /\ ~(SubSeq(ItemName[i], 1, 2) = <<"_", "_">>
            /\ SubSeq(ItemName[i], Len(ItemName[i]) - 1, Len(ItemName[i])) = <<"_", "_">>))
  /\ IsAlias(i) => /\ FinalTarget(i) # Unresolved
                   /\ ItemName[i] # ItemName[FinalTarget(i)]

\* the item's path is in the index under its final target's path
Recorded(i) ==
  /\ Eligible(i)
  /\ ItemPath[FinalTarget(i)] \in DOMAIN data
  /\ ItemPath[i] \in Range(data[ItemPath[FinalTarget(i)]])

RenamingAliases ==
  {i \in Items : /\ IsAlias(i)
                 /\ FinalTarget(i) # Unresolved
                 /\ ItemName[i] # ItemName[FinalTarget(i)]}

\* C2: the path of an alias that renames its target is never in the index, and
\* the step that pops such an alias changes neither _data, _objects nor
\* _toplevel_objects and pushes nothing: the agenda only loses its top.
C2_RenamedAliasNeverPublic ==
  /\ [](\A r \in RenamingAliases : \A k \in DOMAIN data : ItemPath[r] \notin Range(data[k]))
  /\ [][(pc = "init" /\ agenda # <<>> /\ Top[1] \in RenamingAliases) =>
          /\ data' = data
          /\ objects' = objects
          /\ toplevel_objects' = toplevel_objects
          /\ agenda' = Rest]_vars

\* a renaming alias with members, whose path is top-level-public, was popped
\* with force_public set
C2_Witness ==
  /\ pc = "built"
  /\ \E r \in RenamingAliases :
       /\ <<r, TRUE>> \in popped
       /\ members[r] # <<>>
       /\ ItemPath[r] \in top_level_public_api

\* C3: a lookup of a key under which two distinct paths are recorded raises the
\* ValueError that lists both and returns nothing; a lookup of a key whose list
\* holds exactly one path returns (that path, True).
C3_AmbiguousRaises ==
  (pc = "looked" /\ result.key \in DOMAIN data) =>
    LET paths == data[result.key]
    IN /\ (\E i, j \in 1..Len(paths) : paths[i] # paths[j]) =>
            /\ result.kind = "ValueError"
            /\ Range(paths) \subseteq Range(result.paths)
       /\ Len(paths) = 1 =>
            /\ result.kind = "return"
            /\ result.path = paths[1]
            /\ result.autoref = TRUE

\* a lookup raised the ValueError for a key with two distinct paths
C3_Witness ==
  /\ pc = "looked"
  /\ result.kind = "ValueError"
  /\ \E i, j \in 1..Len(result.paths) : result.paths[i] # result.paths[j]

\* C8: the traversal terminates, on cyclic graphs too, and an item that was
\* popped is never pushed again.
C8_Terminates ==
  /\ (pc = "init") ~> (pc = "built")
  /\ [][\A x \in seen : \A f \in BOOLEAN :
          Count(agenda', <<x, f>>) <= Count(agenda, <<x, f>>)]_vars

\* the traversal of a graph with a member cycle has finished
C8_Witness ==
  /\ pc = "built"
  /\ \E a, b \in seen : a \in Range(members[b]) /\ b \in Range(members[a])

\* the bound on the agenda's length is never what stops the loop
AgendaWithinBound == Len(agenda) < MaxAgenda

\* C9: no list of the index holds the same path twice.
C9_NoPathTwice ==
  \A k \in DOMAIN data :
    \A i, j \in 1..Len(data[k]) : i # j => data[k][i] # data[k][j]

(***************************************************************************)
(* Properties of on_package_loaded.                                        *)
(***************************************************************************)
\* the key is absent from the index and under no builtin, stdlib or extra
\* public module
Missing(key) ==
  /\ key \notin DOMAIN data
  /\ \A m \in Range(config.builtin_modules) \cup Range(config.stdlib_modules)
               \cup Range(config.extra_public_modules) :
       ~StartsWith(key, m \o <<".">>)

\* the type objects the hook meets in one annotation (strings are evaluated)
\* and in one default (strings are not)
AnnotationTypes(a) ==
  IF a.is = "type" THEN {a.key}
  ELSE IF a.is = "str" /\ a.evals.is = "type" THEN {a.evals.key}
  ELSE {}

DefaultTypes(a) == IF a.is = "type" THEN {a.key} ELSE {}

\* the type objects the hook meets in the signature of f
TypesOf(f) ==
  LET signature == OnFunctionInstance(f)
  IN UNION {AnnotationTypes(signature.parameters[k].annotation)
              \cup DefaultTypes(signature.parameters[k].default) :
            k \in 1..Len(signature.parameters)}
     \cup AnnotationTypes(signature.return_annotation)

NotPublicRaised == pc = "raised" /\ error.kind = "_NotInPublicApiException"

\* C4 as stated: the not-public error of the hook never leaves
\* on_package_loaded.
C4_NotPublicSuppressed == ~NotPublicRaised

\* C4: a type the hook does not find in the public API is never left
\* undecorated.  The loop over the public objects ends only when every type in
\* the signatures of the public functions was found; otherwise the exception
\* of the lookup leaves on_package_loaded, for a type of a function that is
\* left without its rewritten signature, and the remaining objects are not
\* visited.
C4_NotPublicPropagates ==
  /\ pc \in {"links", "done"} =>
       \A f \in objects : IsFunction(f) => \A key \in TypesOf(f) : ~Missing(key)
  /\ \A f \in Items :
       (IsFunction(f) /\ "parameters" \in DOMAIN extra[f]) =>
         \A k \in 1..Len(extra[f].parameters) :
           AnnotationTypes(OnFunctionInstance(f).parameters[k].annotation) # {} =>
             extra[f].parameters[k].annotation.kind = "TextDoc"
  /\ NotPublicRaised =>
       /\ Missing(error.key)
       /\ \E f \in todo : /\ IsFunction(f)
                          /\ error.key \in TypesOf(f)
                          /\ "returns" \notin DOMAIN extra[f]

\* the exception left the pass for the annotation of __init__, with another
\* public object still to visit
C4_Witness ==
  /\ NotPublicRaised
  /\ error.key = ItemPath["B"]
  /\ "D" \in todo
  /\ todo # {"D"}

\* obj.lineno and obj.endlineno are set and obj.filepath is a Path
HasLocation(obj) ==
  /\ Location(obj).lineno > 0
  /\ Location(obj).endlineno > 0
  /\ Len(Location(obj).filepath) > 0

HasUrl(obj) == "url" \in DOMAIN extra[obj]

\* the final targets of the items whose own path is top-level-public
TopLevelTargets ==
  {FinalTarget(i) : i \in {j \in Items : ItemPath[j] \in top_level_public_api}}

LinksMode(mode) ==
  /\ "show_source_links" \in config.read
  /\ config.show_source_links = mode

\* C6: with "toplevel" only final targets of items whose own path is
\* top-level-public get a URL; with "none" no object gets one; with "all",
\* when on_package_loaded returns, every public object with a file path and a
\* line range has one.
C6_LinksFollowMode ==
  /\ LinksMode("toplevel") => \A obj \in Items : HasUrl(obj) => obj \in TopLevelTargets
  /\ LinksMode("none") => \A obj \in Items : ~HasUrl(obj)
  /\ (LinksMode("all") /\ pc = "done") =>
       \A obj \in objects : HasLocation(obj) => HasUrl(obj)
  /\ \A obj \in Items : HasUrl(obj) => obj \in objects /\ HasLocation(obj)

\* "toplevel" returned with a URL on a top-level object and none on a located
\* object that is public through its parent only
C6_Witness ==
  /\ pc = "done"
  /\ LinksMode("toplevel")
  /\ \E obj \in objects : HasUrl(obj)
  /\ \E obj \in objects : HasLocation(obj) /\ obj \notin TopLevelTargets /\ ~HasUrl(obj)

(***************************************************************************)
(* Properties of _collect_bases.                                           *)
(***************************************************************************)
Classes == {c \in Items : IsClass(c)}

ClassBasesOf(c) ==
  {r.obj : r \in {x \in Range(ResolvedBases(c)) : x.is = "object"}} \cap Classes

NotFound(c) == GetItem(data, config, ItemPath[c]).kind = "_NotInPublicApiException"

\* the classes _collect_bases(cls) looks up: the bases of cls, and the bases of
\* every base the lookup does not find
RECURSIVE LookedUp(_, _)
LookedUp(S, n) ==
  IF n = 0 THEN S
  ELSE LookedUp(S \cup UNION {ClassBasesOf(c) : c \in {x \in S : NotFound(x)}}, n - 1)

BasesLookedUp(cls) == LookedUp(ClassBasesOf(cls), Cardinality(Classes))

HasPublicBases(cls) == "public_bases" \in DOMAIN extra[cls]

\* C5: a key of the mapping stored for a public class is the public path of a
\* base that the lookup finds (or the name of a builtin, when builtins is a
\* public module), never the path of a base that is not found; and every base
\* that is found, directly or through bases that are not, has its entry with
\* the autoref flag of the lookup.
C5_BasesFlattened ==
  \A cls \in Items : HasPublicBases(cls) =>
    LET public_bases == extra[cls].public_bases
    IN /\ \A key \in Keys(public_bases) :
            \/ /\ key \in BuiltinNames
               /\ Builtins \in Range(config.extra_public_modules)
                                 \cup Range(config.stdlib_modules)
            \/ \E b \in BasesLookedUp(cls) :
                 /\ ~NotFound(b)
                 /\ GetItem(data, config, ItemPath[b]).path = key
       /\ \A b \in BasesLookedUp(cls) :
            IF NotFound(b)
              THEN ItemPath[b] \notin Keys(public_bases)
              ELSE <<GetItem(data, config, ItemPath[b]).path,
                     GetItem(data, config, ItemPath[b]).autoref>> \in Range(public_bases)

\* A(_P), _P(B) with B in the index: the mapping of A is {"p.m.B": True}
C5_Witness ==
  /\ HasPublicBases("A")
  /\ bases["A"] = <<ItemPath["P"]>>
  /\ bases["P"] = <<ItemPath["B"]>>
  /\ extra["A"].public_bases = << <<ItemPath["B"], TRUE>> >>

\* C10: the recursion of _collect_bases is no deeper than there are classes,
\* no class is entered while it is on the recursion path, and the recursion
\* never uses up the interpreter's stack.
C10_BoundedRecursion ==
  /\ Len(stack) <= Cardinality(Classes)
  /\ \A i, j \in 1..Len(stack) : i # j => stack[i].cls # stack[j].cls
  /\ error.kind # "RecursionError"

(***************************************************************************)
(* Properties of _get_repo_url.                                            *)
(***************************************************************************)
\* C7 as stated: git runs at most once for each argument, whatever the calls
\* end in.
C7_GitAtMostOncePerUrl == \A u \in DOMAIN git_runs : git_runs[u] <= 1

\* C7: git never runs for an argument that is None, a call that returns
\* leaves its argument in the cache, and once a call with an argument has
\* returned no later call with that argument runs git.  (A call that raises
\* caches nothing: the next call with its argument runs git again.)
C7_GitOncePerReturnedUrl ==
  /\ [](None \notin DOMAIN git_runs)
  /\ []((pc = "process" /\ calls > 0 /\ result.out.kind = "return") =>
          result.arg \in DOMAIN cache)
  /\ [][\A u \in DOMAIN cache : git_runs'[u] = git_runs[u]]_vars

\* a call returned from the cache, without running git, after a call with
\* another argument had run git twice and raised twice
C7_Witness ==
  /\ pc = "process"
  /\ calls > 0
  /\ result.out.kind = "return"
  /\ ~result.ran
  /\ \E u \in DOMAIN git_runs : u \notin DOMAIN cache /\ git_runs[u] >= 2
====
